---- MODULE Spec2Model ----
(***************************************************************************)
(* The vyantra stack machine (src/src/lib.rs): a bounded stack with a      *)
(* stack pointer, six registers, register/stack paths, and the             *)
(* fetch-execute loop of Machine::run.  One step of the model is one       *)
(* iteration of the loop in run: the fetch of get_next_inst followed by    *)
(* the whole match arm of the fetched instruction, up to the end of the    *)
(* arm or to the panic that ends the run.                                  *)
(*                                                                         *)
(* Addresses and stack indices are 0-based as in the source; TLA+          *)
(* sequences are 1-based, so element i of a Vec is at position i + 1.      *)
(* A usize that has wrapped below zero (2^64 + v with v < 0) is kept as    *)
(* its negative representative v: it indexes nothing, as 2^64 + v exceeds  *)
(* every Vec length.                                                       *)
(***************************************************************************)
EXTENDS Integers, Sequences, FiniteSets, TLC

\* lib.rs:7
STACK_SIZE == 1024

\* The largest i32 (the type of stack cells, registers and operands).
I32Max == 2147483647
I32Min == -I32Max - 1

(***************************************************************************)
(* Bounds of the model.                                                    *)
(***************************************************************************)
\* Longest program of the exhaustively enumerated family.
MaxProgLen == 3
\* Largest magnitude of a jump offset in the enumerated family.
MaxJmp == 2
\* Largest magnitude of a stack-relative path offset.
MaxOff == 2
\* Deepest prepared stack of the copy and jump families.
MaxDepth == 2
\* Number of backward jumps one run may take.
MaxLoops == 3

(***************************************************************************)
(* enum Reg, enum Path, enum Inst                                          *)
(***************************************************************************)
Reg == {"A", "B", "C", "D", "E", "F"}

REG(r) == [kind |-> "REG", reg |-> r]
STK(i) == [kind |-> "STK", idx |-> i]

PSH(v) == [op |-> "PSH", val |-> v]
POP == [op |-> "POP"]
ADD == [op |-> "ADD"]
SUB == [op |-> "SUB"]
MUL == [op |-> "MUL"]
DIV == [op |-> "DIV"]
SET(r, v) == [op |-> "SET", reg |-> r, val |-> v]
CPY(d, s) == [op |-> "CPY", dst |-> d, src |-> s]
JMP(k) == [op |-> "JMP", step |-> k]
HLT == [op |-> "HLT"]

(***************************************************************************)
(* i32 arithmetic.  The operators of the source are the plain +, -, * and  *)
(* / of Rust: with overflow checks (the debug profile) an overflowing      *)
(* +, - or * panics, without them (the release profile) it wraps modulo    *)
(* 2^32; i32::MIN / -1 panics under both.  Every intermediate value below  *)
(* stays within the i32 range.                                             *)
(***************************************************************************)
AddOverflows(a, b) ==
    \/ b > 0 /\ a > I32Max - b
    \/ b < 0 /\ a < I32Min - b

WrapAdd(a, b) ==
    IF b > 0 /\ a > I32Max - b THEN (a + I32Min) + (b + I32Min)
    ELSE IF b < 0 /\ a < I32Min - b THEN (a - I32Min) + (b - I32Min)
    ELSE a + b

SubOverflows(a, b) ==
    \/ b < 0 /\ a > I32Max + b
    \/ b > 0 /\ a < I32Min + b

WrapSub(a, b) ==
    IF b < 0 /\ a > I32Max + b THEN (a + I32Min) - (b - I32Min)
    ELSE IF b > 0 /\ a < I32Min + b THEN (a - I32Min) - (b + I32Min)
    ELSE a - b

\* Division rounding toward minus infinity.
TruncDiv_floor(a, b) == a \div b

\* The quotient of Rust's / on i32: truncated toward zero.  Not defined for
\* b = 0 nor for i32::MIN / -1 (the callers exclude both).
TruncDiv(a, b) ==
    LET PosDiv(x, y) == IF x >= 0 \/ x % y = 0 THEN x \div y ELSE (x \div y) + 1
    IN  IF b > 0 THEN PosDiv(a, b)
        ELSE IF b = I32Min THEN (IF a = I32Min THEN 1 ELSE 0)
        ELSE -PosDiv(a, -b)

DivOverflows(a, b) == a = I32Min /\ b = -1

MulOverflows(a, b) ==
    IF a = 0 \/ b = 0 THEN FALSE
    ELSE IF a > 0 /\ b > 0 THEN a > TruncDiv(I32Max, b)
    ELSE IF a > 0 /\ b < 0 THEN b < TruncDiv(I32Min, a)
    ELSE IF a < 0 /\ b > 0 THEN a < TruncDiv(I32Min, b)
    ELSE b < TruncDiv(I32Max, a)

\* a * b modulo 2^32, from the 16-bit halves of the two's-complement operands.
MulLo16(x, y) == ((x * (y % 256)) + ((x * (y \div 256)) % 256) * 256) % 65536

MulHi16(x, y) ==
    (((x * (y % 256)) + ((x * (y \div 256)) % 256) * 256) \div 65536)
        + ((x * (y \div 256)) \div 256)

WrapMul(a, b) ==
    LET al == a % 65536
        ah == (a \div 65536) % 65536
        bl == b % 65536
        bh == (b \div 65536) % 65536
        lo == MulLo16(al, bl)
        hi == (MulHi16(al, bl) + MulLo16(ah, bl) + MulLo16(al, bh)) % 65536
    IN  (IF hi >= 32768 THEN hi - 65536 ELSE hi) * 65536 + lo

(***************************************************************************)
(* State.  program, ip, stack and registers are the fields of Machine;     *)
(* status says whether run is still looping, has returned through HLT, or  *)
(* with which panic it ended; overflow_checks is the build profile.  The   *)
(* remaining variables record history and change nothing of the machine:   *)
(* fetched holds the (at most two) instructions executed last with their   *)
(* addresses, newest first; before holds the stack and registers the       *)
(* newest of them started from; popped holds the values its pops returned; *)
(* lifo is a reference last-in-first-out list (newest first) fed every     *)
(* push and pop the stack performed, refPopped what it returned for        *)
(* popped, lifoValid whether the stack was so far changed by push and pop  *)
(* alone; loops counts the backward jumps taken, and is -1 throughout a    *)
(* run whose backward jumps are neither counted nor limited; fetches       *)
(* counts the calls of get_next_inst, up to two more than the program is   *)
(* long, where it stays.                                                   *)
(***************************************************************************)
VARIABLES program, ip, stack, registers, status, overflow_checks,
          fetched, before, popped, lifo, refPopped, lifoValid, loops, fetches

vars == <<program, ip, stack, registers, status, overflow_checks,
          fetched, before, popped, lifo, refPopped, lifoValid, loops, fetches>>

(***************************************************************************)
(* impl Stack                                                              *)
(***************************************************************************)
StackNew == [memory |-> <<>>, sp |-> -1]

\* push with the capacity test off by one.
push_past_capacity(s, value) ==
    IF Len(s.memory) <= STACK_SIZE
    THEN [ok |-> TRUE,
          stack |-> [memory |-> Append(s.memory, value), sp |-> s.sp + 1]]
    ELSE [ok |-> FALSE, stack |-> s]

push(s, value) ==
    IF Len(s.memory) < STACK_SIZE
    THEN [ok |-> TRUE,
          stack |-> [memory |-> Append(s.memory, value), sp |-> s.sp + 1]]
    ELSE [ok |-> FALSE, stack |-> s]

\* pop that forgets to move the stack pointer.
pop_keeps_sp(s) ==
    IF Len(s.memory) > 0
    THEN [ok |-> TRUE,
          stack |-> [memory |-> SubSeq(s.memory, 1, Len(s.memory) - 1),
                     sp |-> s.sp],
          val |-> s.memory[Len(s.memory)]]
    ELSE [ok |-> FALSE, stack |-> s, val |-> 0]

\* pop that takes the oldest value instead of the newest.
pop_oldest(s) ==
    IF Len(s.memory) > 0
    THEN [ok |-> TRUE,
          stack |-> [memory |-> Tail(s.memory), sp |-> s.sp - 1],
          val |-> Head(s.memory)]
    ELSE [ok |-> FALSE, stack |-> s, val |-> 0]

\* pop that hands out the top and leaves it in the Vec.
pop_leaves_value(s) ==
    IF Len(s.memory) > 0
    THEN [ok |-> TRUE, stack |-> s, val |-> s.memory[Len(s.memory)]]
    ELSE [ok |-> FALSE, stack |-> s, val |-> 0]

pop(s) ==
    IF Len(s.memory) > 0
    THEN [ok |-> TRUE,
          stack |-> [memory |-> SubSeq(s.memory, 1, Len(s.memory) - 1),
                     sp |-> s.sp - 1],
          val |-> s.memory[Len(s.memory)]]
    ELSE [ok |-> FALSE, stack |-> s, val |-> 0]

\* The usize index get_at_idx and set_at_idx hand to Vec::get / get_mut.
StackIndex(s, idx) == IF idx >= 0 THEN s.sp - idx ELSE s.sp + (-1 * idx)

\* What resolving idx ends in: "ok" with the 0-based index, or the failure.
\* sp - idx below zero panics under overflow checks and otherwise wraps to
\* an index beyond the Vec, for which get returns None.
Resolve(s, idx, checks) ==
    IF ~(s.sp >= 0 /\ s.sp < Len(s.memory))
    THEN [res |-> "AssertionFailed", at |-> 0]
    ELSE IF idx >= 0 /\ s.sp - idx < 0 /\ checks
    THEN [res |-> "ArithmeticOverflow", at |-> 0]
    ELSE IF StackIndex(s, idx) >= 0 /\ StackIndex(s, idx) < Len(s.memory)
    THEN [res |-> "ok", at |-> StackIndex(s, idx)]
    ELSE [res |-> "AddressError", at |-> 0]

get_at_idx(s, idx, checks) ==
    LET r == Resolve(s, idx, checks)
    IN  [res |-> r.res, val |-> IF r.res = "ok" THEN s.memory[r.at + 1] ELSE 0]

set_at_idx(s, idx, val, checks) ==
    LET r == Resolve(s, idx, checks)
    IN  [res |-> r.res,
         stack |-> IF r.res = "ok"
                   THEN [s EXCEPT !.memory[r.at + 1] = val]
                   ELSE s]

(***************************************************************************)
(* Registers and paths                                                     *)
(***************************************************************************)
get_reg_value(regs, reg) ==
    IF reg \in DOMAIN regs
    THEN [res |-> "ok", val |-> regs[reg]]
    ELSE [res |-> "RegisterError", val |-> 0]

\* A write that rebuilds the register file around the one register written.
set_reg_value_clears_others(regs, reg, value) ==
    IF reg \in DOMAIN regs
    THEN [res |-> "ok",
          registers |-> [r \in DOMAIN regs |-> IF r = reg THEN value ELSE 0]]
    ELSE [res |-> "RegisterError", registers |-> regs]

set_reg_value(regs, reg, value) ==
    IF reg \in DOMAIN regs
    THEN [res |-> "ok", registers |-> [regs EXCEPT ![reg] = value]]
    ELSE [res |-> "RegisterError", registers |-> regs]

get_from_path(s, regs, path, checks) ==
    IF path.kind = "REG"
    THEN get_reg_value(regs, path.reg)
    ELSE get_at_idx(s, path.idx, checks)

set_at_path(s, regs, path, val, checks) ==
    IF path.kind = "REG"
    THEN LET r == set_reg_value(regs, path.reg, val)
         IN  [res |-> r.res, stack |-> s, registers |-> r.registers]
    ELSE LET r == set_at_idx(s, path.idx, val, checks)
         IN  [res |-> r.res, stack |-> r.stack, registers |-> regs]

(***************************************************************************)
(* Machine::run, one match arm at a time.  An arm yields the stack,        *)
(* registers, ip and status it leaves (at its end or at the panic that     *)
(* cuts it short) and, for the history variables, the values it popped and *)
(* pushed and whether it wrote a stack cell in place.                      *)
(***************************************************************************)
Outcome(s, regs, p, st, pp, ph, wrote) ==
    [stack |-> s, registers |-> regs, ip |-> p, status |-> st,
     popped |-> pp, pushed |-> ph, wrote |-> wrote]

\* A failed fetch that advances the pointer all the same.
get_next_inst_advances_past_end(prog, p) ==
    IF p >= 0 /\ p < Len(prog)
    THEN [some |-> TRUE, inst |-> prog[p + 1], ip |-> p + 1]
    ELSE [some |-> FALSE, inst |-> [op |-> "None"], ip |-> p + 1]

\* A fetch that hands out the instruction and leaves the pointer on it.
get_next_inst_without_advance(prog, p) ==
    IF p >= 0 /\ p < Len(prog)
    THEN [some |-> TRUE, inst |-> prog[p + 1], ip |-> p]
    ELSE [some |-> FALSE, inst |-> [op |-> "None"], ip |-> p]

\* get_next_inst: the instruction at ip and the advanced ip, or None.
get_next_inst(prog, p) ==
    IF p >= 0 /\ p < Len(prog)
    THEN [some |-> TRUE, inst |-> prog[p + 1], ip |-> p + 1]
    ELSE [some |-> FALSE, inst |-> [op |-> "None"], ip |-> p]

run_PSH(s, regs, p, val) ==
    LET r == push(s, val)
    IN  IF r.ok
        THEN Outcome(r.stack, regs, p, "running", <<>>, <<val>>, FALSE)
        ELSE Outcome(r.stack, regs, p, "StackOverflow", <<>>, <<>>, FALSE)

\* A pop that returns the top and leaves it on the stack.
run_POP_keeps_top(s, regs, p) ==
    LET r == pop(s)
    IN  IF r.ok
        THEN Outcome(s, regs, p, "running", <<r.val>>, <<r.val>>, FALSE)
        ELSE Outcome(r.stack, regs, p, "StackUnderflow", <<>>, <<>>, FALSE)

run_POP(s, regs, p) ==
    LET r == pop(s)
    IN  IF r.ok
        THEN Outcome(r.stack, regs, p, "running", <<r.val>>, <<>>, FALSE)
        ELSE Outcome(r.stack, regs, p, "StackUnderflow", <<>>, <<>>, FALSE)

\* The operands taken in the order they were popped.
ArithValue_swapped(op, arg_1, arg_2) ==
    CASE op = "ADD" -> WrapAdd(arg_2, arg_1)
      [] op = "SUB" -> WrapSub(arg_2, arg_1)
      [] op = "MUL" -> WrapMul(arg_2, arg_1)
      [] op = "DIV" -> IF arg_1 = 0 THEN 0 ELSE TruncDiv(arg_2, arg_1)

\* arg_1 op arg_2 as the arm computes it once it does not panic.
ArithValue(op, arg_1, arg_2) ==
    CASE op = "ADD" -> WrapAdd(arg_1, arg_2)
      [] op = "SUB" -> WrapSub(arg_1, arg_2)
      [] op = "MUL" -> WrapMul(arg_1, arg_2)
      [] op = "DIV" -> TruncDiv(arg_1, arg_2)

\* Whether computing arg_1 op arg_2 panics.
ArithPanics(op, arg_1, arg_2, checks) ==
    CASE op = "ADD" -> checks /\ AddOverflows(arg_1, arg_2)
      [] op = "SUB" -> checks /\ SubOverflows(arg_1, arg_2)
      [] op = "MUL" -> checks /\ MulOverflows(arg_1, arg_2)
      [] op = "DIV" -> DivOverflows(arg_1, arg_2)

\* The ADD, SUB and MUL arms: pop arg_2, pop arg_1, push arg_1 op arg_2.
run_Arith(s, regs, p, op, checks) ==
    LET p2 == pop(s)
        p1 == pop(p2.stack)
        v  == ArithValue(op, p1.val, p2.val)
        r  == push(p1.stack, v)
    IN  IF ~p2.ok
        THEN Outcome(p2.stack, regs, p, "StackUnderflow", <<>>, <<>>, FALSE)
        ELSE IF ~p1.ok
        THEN Outcome(p1.stack, regs, p, "StackUnderflow", <<p2.val>>, <<>>, FALSE)
        ELSE IF ArithPanics(op, p1.val, p2.val, checks)
        THEN Outcome(p1.stack, regs, p, "ArithmeticOverflow",
                     <<p2.val, p1.val>>, <<>>, FALSE)
        ELSE IF ~r.ok
        THEN Outcome(r.stack, regs, p, "StackOverflow",
                     <<p2.val, p1.val>>, <<>>, FALSE)
        ELSE Outcome(r.stack, regs, p, "running", <<p2.val, p1.val>>, <<v>>, FALSE)

\* The DIV arm testing the divisor only after both operands are popped.
run_DIV_late_zero_test(s, regs, p, checks) ==
    LET p2 == pop(s)
        p1 == pop(p2.stack)
    IN  IF ~p2.ok
        THEN Outcome(p2.stack, regs, p, "StackUnderflow", <<>>, <<>>, FALSE)
        ELSE IF ~p1.ok
        THEN Outcome(p1.stack, regs, p, "StackUnderflow", <<p2.val>>, <<>>, FALSE)
        ELSE IF p2.val = 0
        THEN Outcome(p1.stack, regs, p, "DivideByZero",
                     <<p2.val, p1.val>>, <<>>, FALSE)
        ELSE run_Arith(s, regs, p, "DIV", checks)

\* The DIV arm: pop arg_2, panic if it is zero, pop arg_1, push arg_1 / arg_2.
run_DIV(s, regs, p, checks) ==
    LET p2 == pop(s)
    IN  IF ~p2.ok
        THEN Outcome(p2.stack, regs, p, "StackUnderflow", <<>>, <<>>, FALSE)
        ELSE IF p2.val = 0
        THEN Outcome(p2.stack, regs, p, "DivideByZero", <<p2.val>>, <<>>, FALSE)
        ELSE run_Arith(s, regs, p, "DIV", checks)

run_SET(s, regs, p, reg, val) ==
    LET r == set_reg_value(regs, reg, val)
    IN  Outcome(s, r.registers, p,
                IF r.res = "ok" THEN "running" ELSE r.res, <<>>, <<>>, FALSE)

\* The copy the wrong way round: reads the destination, writes the source.
run_CPY_reversed(s, regs, p, dst, src, checks) ==
    LET g == get_from_path(s, regs, dst, checks)
        w == set_at_path(s, regs, src, g.val, checks)
    IN  IF g.res # "ok"
        THEN Outcome(s, regs, p, g.res, <<>>, <<>>, FALSE)
        ELSE IF w.res # "ok"
        THEN Outcome(s, regs, p, w.res, <<>>, <<>>, FALSE)
        ELSE Outcome(w.stack, w.registers, p, "running", <<>>, <<>>,
                     src.kind = "STK")

run_CPY(s, regs, p, dst, src, checks) ==
    LET g == get_from_path(s, regs, src, checks)
        w == set_at_path(s, regs, dst, g.val, checks)
    IN  IF g.res # "ok"
        THEN Outcome(s, regs, p, g.res, <<>>, <<>>, FALSE)
        ELSE IF w.res # "ok"
        THEN Outcome(s, regs, p, w.res, <<>>, <<>>, FALSE)
        ELSE Outcome(w.stack, w.registers, p, "running", <<>>, <<>>,
                     dst.kind = "STK")

\* JMP adding a forward step to the advanced ip without the correction.
run_JMP_forward_uncorrected(s, regs, p, step, checks) ==
    IF step < 0
    THEN IF p - (-1 * (step - 1)) < 0 /\ checks
         THEN Outcome(s, regs, p, "ArithmeticOverflow", <<>>, <<>>, FALSE)
         ELSE Outcome(s, regs, p - (-1 * (step - 1)), "running", <<>>, <<>>, FALSE)
    ELSE Outcome(s, regs, p + step, "running", <<>>, <<>>, FALSE)

\* JMP taking a backward step off the advanced ip without the correction.
run_JMP_backward_uncorrected(s, regs, p, step, checks) ==
    IF step < 0
    THEN IF p - (-1 * step) < 0 /\ checks
         THEN Outcome(s, regs, p, "ArithmeticOverflow", <<>>, <<>>, FALSE)
         ELSE Outcome(s, regs, p - (-1 * step), "running", <<>>, <<>>, FALSE)
    ELSE IF step > 0
    THEN Outcome(s, regs, p + (step - 1), "running", <<>>, <<>>, FALSE)
    ELSE Outcome(s, regs, p, "running", <<>>, <<>>, FALSE)

\* JMP whose zero step is measured from the jump itself.
run_JMP_zero_to_self(s, regs, p, step, checks) ==
    IF step < 0
    THEN IF p - (-1 * (step - 1)) < 0 /\ checks
         THEN Outcome(s, regs, p, "ArithmeticOverflow", <<>>, <<>>, FALSE)
         ELSE Outcome(s, regs, p - (-1 * (step - 1)), "running", <<>>, <<>>, FALSE)
    ELSE IF step > 0
    THEN Outcome(s, regs, p + (step - 1), "running", <<>>, <<>>, FALSE)
    ELSE Outcome(s, regs, p - 1, "running", <<>>, <<>>, FALSE)

\* A backward jump that stops at address 0 instead of underflowing.
run_JMP_saturating(s, regs, p, step, checks) ==
    IF step < 0
    THEN IF p - (-1 * (step - 1)) < 0
         THEN Outcome(s, regs, 0, "running", <<>>, <<>>, FALSE)
         ELSE Outcome(s, regs, p - (-1 * (step - 1)), "running", <<>>, <<>>, FALSE)
    ELSE IF step > 0
    THEN Outcome(s, regs, p + (step - 1), "running", <<>>, <<>>, FALSE)
    ELSE Outcome(s, regs, p, "running", <<>>, <<>>, FALSE)

\* The JMP arm on the already advanced ip p.  A backward step beyond address
\* zero takes the usize below zero: a panic under overflow checks, a wrapped
\* ip otherwise.
run_JMP(s, regs, p, step, checks) ==
    IF step < 0
    THEN IF p - (-1 * (step - 1)) < 0 /\ checks
         THEN Outcome(s, regs, p, "ArithmeticOverflow", <<>>, <<>>, FALSE)
         ELSE Outcome(s, regs, p - (-1 * (step - 1)), "running", <<>>, <<>>, FALSE)
    ELSE IF step > 0
    THEN Outcome(s, regs, p + (step - 1), "running", <<>>, <<>>, FALSE)
    ELSE Outcome(s, regs, p, "running", <<>>, <<>>, FALSE)

run_HLT(s, regs, p) == Outcome(s, regs, p, "halted", <<>>, <<>>, FALSE)

(***************************************************************************)
(* Programs the machine is constructed with.                               *)
(***************************************************************************)
\* main.rs:4-21
MainProgram ==
    << PSH(5), PSH(6), POP, PSH(21), ADD, POP, SET("A", 12), SET("B", 144),
       PSH(0), CPY(STK(0), REG("B")), PSH(0), CPY(STK(0), REG("A")),
       DIV, POP, JMP(-6), HLT >>

\* lib.rs:394 (tests::it_works)
ItWorksProgram == << PSH(5), PSH(6), ADD, POP, HLT >>

\* n pushes of the distinct values 1 .. n.
Fill(n) == [i \in 1..n |-> PSH(i)]

\* Every program of at most MaxProgLen instructions over a small alphabet
\* holding each kind of instruction; the empty program is among them.
GenericInsts ==
    {PSH(v) : v \in {-2, 0, 7}}
        \cup {POP, ADD, SUB, MUL, DIV, HLT}
        \cup {SET("A", 12), CPY(STK(0), REG("A")), CPY(REG("B"), STK(1))}
        \cup {JMP(k) : k \in -MaxJmp..MaxJmp}

GenericPrograms == UNION {[1..n -> GenericInsts] : n \in 0..MaxProgLen}

\* Binary arithmetic on every pair of operands of every sign, the extremes
\* of i32 included, above older values.
ArithVals == {I32Min, -7, -2, -1, 0, 1, 2, 7, I32Max}

ArithPrograms ==
    {Fill(n) \o <<PSH(a), PSH(b), o, HLT>> :
        n \in 0..MaxDepth, a \in ArithVals, b \in ArithVals,
        o \in {ADD, SUB, MUL, DIV}}

\* A copy between every two paths, on stacks of every depth up to MaxDepth.
Paths == {REG(r) : r \in Reg} \cup {STK(i) : i \in -MaxOff..MaxOff}

CpyPrograms ==
    {Fill(n) \o <<SET("A", 12), SET("B", 144), CPY(d, s), HLT>> :
        n \in 0..MaxDepth, d \in Paths, s \in Paths}

\* The stack filled to its capacity, and what follows.
FullPrograms ==
    {Fill(STACK_SIZE) \o t :
        t \in {<<PSH(0), HLT>>, <<POP, PSH(0), PSH(0), HLT>>,
               <<ADD, PSH(0), PSH(0), HLT>>, <<DIV, HLT>>}}

Programs ==
    GenericPrograms \cup ArithPrograms \cup CpyPrograms \cup FullPrograms
        \cup {MainProgram, ItWorksProgram}

(***************************************************************************)
(* Machine::new and the steps of Machine::run                              *)
(***************************************************************************)
\* Machine::new asserts that the program is not empty.
MachineNew(prog) ==
    [program |-> prog, ip |-> 0, stack |-> StackNew,
     registers |-> [r \in Reg |-> 0],
     status |-> IF Len(prog) > 0 THEN "running" ELSE "MalformedProgram"]

Init ==
    /\ program \in Programs
    /\ ip = MachineNew(program).ip
    /\ stack = MachineNew(program).stack
    /\ registers = MachineNew(program).registers
    /\ status = MachineNew(program).status
    /\ overflow_checks \in BOOLEAN
    /\ fetched = <<>>
    /\ before = [stack |-> StackNew, registers |-> [r \in Reg |-> 0]]
    /\ popped = <<>>
    /\ lifo = <<>>
    /\ refPopped = <<>>
    /\ lifoValid = TRUE
    /\ loops = 0
    /\ fetches = 0

Min(a, b) == IF a <= b THEN a ELSE b

\* The instruction the next iteration of the loop fetches.
Fetch == get_next_inst(program, ip)

Fetches(op) == status = "running" /\ Fetch.some /\ Fetch.inst.op = op

\* The state after an arm with outcome r; the history variables follow.
Commit(r) ==
    /\ stack' = r.stack
    /\ registers' = r.registers
    /\ ip' = r.ip
    /\ status' = r.status
    /\ fetched' = <<[addr |-> ip, inst |-> Fetch.inst]>>
                      \o SubSeq(fetched, 1, Min(1, Len(fetched)))
    /\ before' = [stack |-> stack, registers |-> registers]
    /\ popped' = r.popped
    /\ refPopped' = SubSeq(lifo, 1, Min(Len(r.popped), Len(lifo)))
    /\ lifo' = r.pushed \o SubSeq(lifo, Len(r.popped) + 1, Len(lifo))
    /\ lifoValid' = (lifoValid /\ ~r.wrote)
    /\ loops' = IF loops >= 0 /\ r.ip < Fetch.ip /\ r.status = "running"
                 THEN loops + 1
                 ELSE loops
    /\ fetches' = Min(fetches + 1, Len(program) + 2)
    /\ UNCHANGED <<program, overflow_checks>>

ExecPSH ==
    /\ Fetches("PSH")
    /\ Commit(run_PSH(stack, registers, Fetch.ip, Fetch.inst.val))

ExecPOP ==
    /\ Fetches("POP")
    /\ Commit(run_POP(stack, registers, Fetch.ip))

ExecADD ==
    /\ Fetches("ADD")
    /\ Commit(run_Arith(stack, registers, Fetch.ip, "ADD", overflow_checks))

ExecSUB ==
    /\ Fetches("SUB")
    /\ Commit(run_Arith(stack, registers, Fetch.ip, "SUB", overflow_checks))

ExecMUL ==
    /\ Fetches("MUL")
    /\ Commit(run_Arith(stack, registers, Fetch.ip, "MUL", overflow_checks))

ExecDIV ==
    /\ Fetches("DIV")
    /\ Commit(run_DIV(stack, registers, Fetch.ip, overflow_checks))

ExecSET ==
    /\ Fetches("SET")
    /\ Commit(run_SET(stack, registers, Fetch.ip, Fetch.inst.reg, Fetch.inst.val))

ExecCPY ==
    /\ Fetches("CPY")
    /\ Commit(run_CPY(stack, registers, Fetch.ip, Fetch.inst.dst, Fetch.inst.src,
                      overflow_checks))

\* A run that counts its backward jumps takes at most MaxLoops of them.
ExecJMP ==
    /\ Fetches("JMP")
    /\ LET r == run_JMP(stack, registers, Fetch.ip, Fetch.inst.step, overflow_checks)
       IN  /\ (r.ip < Fetch.ip /\ r.status = "running") => loops < MaxLoops
           /\ Commit(r)

ExecHLT ==
    /\ Fetches("HLT")
    /\ Commit(run_HLT(stack, registers, Fetch.ip))

\* get_next_inst returned None: the panic of the last arm.
run_None(s, regs, p) ==
    Outcome(s, regs, p, "IllegalInstruction", <<>>, <<>>, FALSE)

ExecNone ==
    /\ status = "running"
    /\ ~Fetch.some
    /\ Commit(run_None(stack, registers, Fetch.ip))

Next ==
    \/ ExecPSH
    \/ ExecPOP
    \/ ExecADD
    \/ ExecSUB
    \/ ExecMUL
    \/ ExecDIV
    \/ ExecSET
    \/ ExecCPY
    \/ ExecJMP
    \/ ExecHLT
    \/ ExecNone

Spec == Init /\ [][Next]_vars

(***************************************************************************)
(* The run to its end.  run is one synchronous loop that nothing suspends: *)
(* it takes its next step whenever it has one (weak fairness of Next).     *)
(* Backward jumps are not limited here, so the programs are those whose    *)
(* runs have finitely many states: the two programs of the source (main.rs *)
(* loops forever through the same states) and the programs of the families *)
(* that hold no backward jump.                                             *)
(***************************************************************************)
NoBackwardJump(prog) ==
    \A i \in 1..Len(prog) : prog[i].op = "JMP" => prog[i].step >= 0

ForeverPrograms ==
    {prog \in GenericPrograms \cup ArithPrograms \cup CpyPrograms :
        NoBackwardJump(prog)}
        \cup {MainProgram, ItWorksProgram}

InitForever ==
    /\ program \in ForeverPrograms
    /\ ip = MachineNew(program).ip
    /\ stack = MachineNew(program).stack
    /\ registers = MachineNew(program).registers
    /\ status = MachineNew(program).status
    /\ overflow_checks \in BOOLEAN
    /\ fetched = <<>>
    /\ before = [stack |-> StackNew, registers |-> [r \in Reg |-> 0]]
    /\ popped = <<>>
    /\ lifo = <<>>
    /\ refPopped = <<>>
    /\ lifoValid = TRUE
    /\ loops = -1
    /\ fetches = 0

SpecForever == InitForever /\ [][Next]_vars /\ WF_vars(Next)

(***************************************************************************)
(* Vocabulary of the properties.                                           *)
(***************************************************************************)
\* The instruction executed last was an `op`, at address LastAddr.
Executed(op) == fetched # <<>> /\ fetched[1].inst.op = op
LastInst == fetched[1].inst
LastAddr == fetched[1].addr

\* The stack cells the last instruction started from, bottom first.
Pre == before.stack.memory

Reverse(q) == [i \in 1..Len(q) |-> q[Len(q) + 1 - i]]

\* q without its last n elements.
DropLast(q, n) == SubSeq(q, 1, Len(q) - n)

(***************************************************************************)
(* C1: in every reachable state, after successful and after failed steps   *)
(* alike, the stack pointer is the stack length minus one: -1 exactly when *)
(* the stack is empty.                                                     *)
(***************************************************************************)
C1_PointerIsLengthMinusOne ==
    /\ stack.sp = Len(stack.memory) - 1
    /\ (stack.sp = -1) <=> (stack.memory = <<>>)

\* An addition on a one-element stack: its first pop succeeded, its second
\* failed.
C1_Witness ==
    /\ Executed("ADD")
    /\ status = "StackUnderflow"
    /\ Len(Pre) = 1
    /\ Len(popped) = 1

(***************************************************************************)
(* C2: as long as the stack was changed by pushes and pops alone, none of  *)
(* which failed, its contents are those of the reference last-in-first-out *)
(* list fed the same operations, and every pop returned what the reference *)
(* returned: the most recently pushed value not yet popped.                *)
(***************************************************************************)
C2_StackIsLifo ==
    (lifoValid /\ status \notin {"StackOverflow", "StackUnderflow"}) =>
        /\ stack.memory = Reverse(lifo)
        /\ popped = refPopped

\* A pop that returned the newest of at least three pushed values and left
\* the older ones in their push order.
C2_Witness ==
    /\ Executed("POP")
    /\ status = "running"
    /\ lifoValid
    /\ Len(stack.memory) >= 2
    /\ popped = <<Pre[Len(Pre)]>>
    /\ stack.memory[1] # stack.memory[2]

(***************************************************************************)
(* C3: the stack never holds more than STACK_SIZE values; a push succeeds  *)
(* exactly when the length is below STACK_SIZE and otherwise ends the run  *)
(* in StackOverflow; a pop of the empty stack ends it in StackUnderflow;   *)
(* the failed push or pop leaves cells and pointer as they were.           *)
(***************************************************************************)
C3_CapacityAndFailures ==
    /\ Len(stack.memory) <= STACK_SIZE
    /\ push(stack, 0).ok <=> (Len(stack.memory) < STACK_SIZE)
    /\ pop(stack).ok <=> (Len(stack.memory) > 0)
    /\ ~push(stack, 0).ok => push(stack, 0).stack = stack
    /\ ~pop(stack).ok => pop(stack).stack = stack
    /\ Executed("PSH") =>
          IF Len(Pre) < STACK_SIZE
          THEN status = "running" /\ stack.memory = Append(Pre, LastInst.val)
          ELSE status = "StackOverflow" /\ stack = before.stack
    /\ Executed("POP") =>
          IF Len(Pre) > 0
          THEN status = "running" /\ stack.memory = DropLast(Pre, 1)
          ELSE status = "StackUnderflow" /\ stack = before.stack
    /\ status = "StackOverflow" =>
          Executed("PSH") /\ Len(stack.memory) = STACK_SIZE
    /\ status = "StackUnderflow" =>
          stack.memory = <<>> /\ stack.sp = -1

\* The 1025th push: it failed on the full stack.
C3_Witness ==
    /\ Executed("PSH")
    /\ status = "StackOverflow"
    /\ Len(stack.memory) = STACK_SIZE
    /\ LastAddr = STACK_SIZE

(***************************************************************************)
(* Reference arithmetic of the properties: the exact integer results,      *)
(* stated without the machine's operators.                                 *)
(***************************************************************************)
BinaryOps == {"ADD", "SUB", "MUL", "DIV"}

\* The last instruction was binary arithmetic on a stack of at least two
\* values: OperandA lay deeper, OperandB on top.
ExecutedBinary == fetched # <<>> /\ LastInst.op \in BinaryOps /\ Len(Pre) >= 2
OperandA == Pre[Len(Pre) - 1]
OperandB == Pre[Len(Pre)]

Abs(x) == IF x >= 0 THEN x ELSE -x
Sign(x) == IF x > 0 THEN 1 ELSE IF x < 0 THEN -1 ELSE 0

\* The integer quotient of a by b rounded toward zero, from the quotient of
\* the magnitudes; a = i32::MIN has no magnitude in i32 and is reduced by
\* one multiple of b first.  Not defined for b = 0 nor for i32::MIN / -1.
QuotientTowardZero(a, b) ==
    IF b = I32Min THEN (IF a = I32Min THEN 1 ELSE 0)
    ELSE IF a = I32Min
    THEN Sign(b) * (-(Abs(a + Abs(b)) \div Abs(b)) - 1)
    ELSE Sign(a) * Sign(b) * (Abs(a) \div Abs(b))

\* The exact a op b; defined where it lies within i32.
Exact(op, a, b) ==
    CASE op = "ADD" -> a + b
      [] op = "SUB" -> a - b
      [] op = "MUL" -> a * b
      [] op = "DIV" -> QuotientTowardZero(a, b)

\* a op b does not lie within i32.
Unrepresentable(op, a, b) ==
    CASE op = "ADD" -> AddOverflows(a, b)
      [] op = "SUB" -> SubOverflows(a, b)
      [] op = "MUL" -> MulOverflows(a, b)
      [] op = "DIV" -> a = I32Min /\ b = -1

(***************************************************************************)
(* C4 as claimed: add, subtract, multiply and divide on a stack whose two  *)
(* topmost values are a (deeper) and b (top), b nonzero for divide, leave  *)
(* the stack with a and b removed and a op b pushed.  Refuted where a op b *)
(* does not fit an i32: i32::MIN / -1 always, and +, - and * under         *)
(* overflow checks, panic after the two pops and push nothing.  (Read      *)
(* leniently: where a op b does not fit, any pushed value is accepted.)    *)
(***************************************************************************)
C4_AsClaimed ==
    (ExecutedBinary /\ (LastInst.op = "DIV" => OperandB # 0)) =>
        /\ status = "running"
        /\ Len(stack.memory) = Len(Pre) - 1
        /\ ~Unrepresentable(LastInst.op, OperandA, OperandB) =>
              stack.memory =
                Append(DropLast(Pre, 2), Exact(LastInst.op, OperandA, OperandB))

(***************************************************************************)
(* C4 amended: the same, for operands whose exact result a op b fits an    *)
(* i32.  The value popped first (b) is the right-hand operand: subtract    *)
(* leaves a - b and divide a / b.                                          *)
(***************************************************************************)
C4_OperandOrder ==
    (/\ ExecutedBinary
     /\ LastInst.op = "DIV" => OperandB # 0
     /\ ~Unrepresentable(LastInst.op, OperandA, OperandB)) =>
        /\ status = "running"
        /\ popped = <<OperandB, OperandA>>
        /\ stack.memory =
              Append(DropLast(Pre, 2), Exact(LastInst.op, OperandA, OperandB))
        /\ stack.sp = before.stack.sp - 1

\* 7 - (-2) = 9 and not -9, below an untouched older value.
C4_Witness ==
    /\ ExecutedBinary
    /\ LastInst.op = "SUB"
    /\ Len(Pre) = 3
    /\ OperandA = 7
    /\ OperandB = -2
    /\ stack.memory = <<Pre[1], 9>>

(***************************************************************************)
(* C5: a divide that finds zero on top of the stack ends the run in        *)
(* DivideByZero without pushing; the stack at the panic is the stack       *)
(* before the instruction less its top, also when the zero was its only    *)
(* value (the left operand is not popped first).                           *)
(***************************************************************************)
C5_DivideByZero ==
    (Executed("DIV") /\ Len(Pre) >= 1 /\ Pre[Len(Pre)] = 0) =>
        /\ status = "DivideByZero"
        /\ popped = <<0>>
        /\ stack.memory = DropLast(Pre, 1)
        /\ stack.sp = before.stack.sp - 1

\* The zero was the only value on the stack.
C5_Witness ==
    /\ Executed("DIV")
    /\ Pre = <<0>>
    /\ status = "DivideByZero"
    /\ stack.memory = <<>>

(***************************************************************************)
(* C6 as claimed: for all a and b # 0 the divide pushes the quotient of a  *)
(* by b truncated toward zero.  Refuted by a = i32::MIN, b = -1, whose     *)
(* quotient 2^31 is no i32: the division panics under either profile.      *)
(***************************************************************************)
C6_AsClaimed ==
    (Executed("DIV") /\ Len(Pre) >= 2 /\ OperandB # 0) =>
        /\ status = "running"
        /\ stack.memory[Len(stack.memory)]
              = QuotientTowardZero(OperandA, OperandB)

(***************************************************************************)
(* C6 amended: for all a and b # 0 other than a = i32::MIN with b = -1,    *)
(* the divide pushes the quotient of a by b truncated toward zero, not the *)
(* floor: its product with b differs from a by a remainder smaller than b  *)
(* in magnitude and of the sign of a.                                      *)
(***************************************************************************)
C6_TruncatedQuotient ==
    (/\ Executed("DIV")
     /\ Len(Pre) >= 2
     /\ OperandB # 0
     /\ ~(OperandA = I32Min /\ OperandB = -1)) =>
        /\ status = "running"
        /\ stack.memory[Len(stack.memory)]
              = QuotientTowardZero(OperandA, OperandB)
        /\ (OperandA = -7 /\ OperandB = 2) => stack.memory[Len(stack.memory)] = -3
        /\ (OperandA = 7 /\ OperandB = -2) => stack.memory[Len(stack.memory)] = -3
        /\ (OperandA = -7 /\ OperandB = -2) => stack.memory[Len(stack.memory)] = 3
        /\ (OperandA = 7 /\ OperandB = 2) => stack.memory[Len(stack.memory)] = 3

\* -7 / 2 = -3, where the floor is -4.
C6_Witness ==
    /\ Executed("DIV")
    /\ Len(Pre) = 2
    /\ OperandA = -7
    /\ OperandB = 2
    /\ stack.memory = <<-3>>

(***************************************************************************)
(* C7: a jump at address j with a nonzero offset k, j + k not negative,    *)
(* leaves the instruction pointer at j + k: the offset counts from the     *)
(* jump's own address, not from the pointer the fetch advanced.            *)
(***************************************************************************)
C7_JumpFromOwnAddress ==
    (Executed("JMP") /\ LastInst.step # 0 /\ LastAddr + LastInst.step >= 0) =>
        /\ status = "running"
        /\ ip = LastAddr + LastInst.step

\* A backward jump from address 2 to address 0, taken after a forward one.
C7_Witness ==
    /\ Len(fetched) = 2
    /\ fetched[2].inst.op = "JMP"
    /\ fetched[2].inst.step > 0
    /\ Executed("JMP")
    /\ LastInst.step = -2
    /\ LastAddr = 2
    /\ ip = 0

(***************************************************************************)
(* C8 as claimed: a jump at address j with offset -1 makes the instruction *)
(* at j, the jump itself, the next one fetched, and with offset 1 the one  *)
(* at j + 1.  Refuted: after offset -1 the pointer is j - 1.  (Stated for  *)
(* j >= 1, where the jump has a target.)                                   *)
(***************************************************************************)
C8_AsClaimed ==
    /\ (Executed("JMP") /\ LastInst.step = -1 /\ LastAddr >= 1) =>
          status = "running" /\ ip = LastAddr
    /\ (Executed("JMP") /\ LastInst.step = 1) =>
          status = "running" /\ ip = LastAddr + 1

(***************************************************************************)
(* C8 amended: a jump at address j >= 1 with offset -1 makes the           *)
(* instruction at j - 1, the one before the jump, the next one fetched; it *)
(* does not re-execute itself.  A jump with offset 1 makes the instruction *)
(* at j + 1 the next one fetched.                                          *)
(***************************************************************************)
C8_MinusOneIsPredecessor ==
    /\ (Executed("JMP") /\ LastInst.step = -1 /\ LastAddr >= 1) =>
          /\ status = "running"
          /\ ip = LastAddr - 1
          /\ Fetch.some
          /\ Fetch.inst = program[LastAddr]
    /\ (Executed("JMP") /\ LastInst.step = 1) =>
          /\ status = "running"
          /\ ip = LastAddr + 1
          /\ Fetch.some => Fetch.inst = program[LastAddr + 2]

\* A jump with offset -1 at address 1 after which the instruction at
\* address 0, no jump, is the next one fetched.
C8_Witness ==
    /\ Executed("JMP")
    /\ LastInst.step = -1
    /\ LastAddr = 1
    /\ ip = 0
    /\ Fetch.some
    /\ Fetch.inst.op = "PSH"

(***************************************************************************)
(* C9: a jump with offset 0 at address j leaves the instruction pointer at *)
(* j + 1 and stack and registers as they were: it does what a jump with    *)
(* offset 1 does and never loops on itself.                                *)
(***************************************************************************)
C9_ZeroJumpIsNoOp ==
    (Executed("JMP") /\ LastInst.step = 0) =>
        /\ status = "running"
        /\ ip = LastAddr + 1
        /\ ip # LastAddr
        /\ stack = before.stack
        /\ registers = before.registers
        /\ run_JMP(before.stack, before.registers, LastAddr + 1, 1, overflow_checks)
              = Outcome(stack, registers, ip, status, <<>>, <<>>, FALSE)

\* A zero jump over a stack and a register that hold values.
C9_Witness ==
    /\ Executed("JMP")
    /\ LastInst.step = 0
    /\ LastAddr = 2
    /\ ip = 3
    /\ stack.memory # <<>>
    /\ registers["A"] # 0

(***************************************************************************)
(* C10: a jump with offset k >= 1 at address j, followed with no other     *)
(* instruction in between by a jump with offset -k, brings the instruction *)
(* pointer back to j.                                                      *)
(***************************************************************************)
C10_JumpRoundTrip ==
    (/\ Len(fetched) = 2
     /\ fetched[2].inst.op = "JMP"
     /\ fetched[1].inst.op = "JMP"
     /\ fetched[2].inst.step >= 1
     /\ fetched[1].inst.step = -1 * fetched[2].inst.step) =>
        /\ status = "running"
        /\ fetched[1].addr = fetched[2].addr + fetched[2].inst.step
        /\ ip = fetched[2].addr

\* The round trip of two positions, from address 0 over address 2.
C10_Witness ==
    /\ Len(fetched) = 2
    /\ fetched[2] = [addr |-> 0, inst |-> JMP(2)]
    /\ fetched[1] = [addr |-> 2, inst |-> JMP(-2)]
    /\ ip = 0

(***************************************************************************)
(* C11.  run returns gracefully only through halt: a run that has halted   *)
(* has just executed HLT.  A fetch attempted with the pointer outside the  *)
(* program (the run fell off the end, or a jump left the program) finds no *)
(* instruction: the run ends in IllegalInstruction, never in a successful  *)
(* return, the failed fetch leaves the pointer where it was, and nothing   *)
(* is stored.  A running machine whose pointer is outside the program has  *)
(* no other step than that failed fetch.                                   *)
(***************************************************************************)
PointerInProgram(p) == p >= 0 /\ p < Len(program)

C11_OnlyHaltReturns ==
    /\ status = "halted" <=> Executed("HLT")
    /\ status = "IllegalInstruction" <=> Executed("None")
    /\ Executed("None") =>
          /\ ~PointerInProgram(LastAddr)
          /\ ip = LastAddr
          /\ stack = before.stack
          /\ registers = before.registers
    /\ (status = "running" /\ ~PointerInProgram(ip)) =>
          /\ ~Fetch.some
          /\ run_None(stack, registers, Fetch.ip).status = "IllegalInstruction"
          /\ run_None(stack, registers, Fetch.ip).ip = ip

\* A forward jump past the end of the program, then the failed fetch.
C11_Witness ==
    /\ Len(fetched) = 2
    /\ Executed("None")
    /\ fetched[2].inst.op = "JMP"
    /\ fetched[2].inst.step >= 2
    /\ ip > Len(program)
    /\ status = "IllegalInstruction"

(***************************************************************************)
(* C12.  A copy whose two paths both resolve stores into the destination   *)
(* the value the source held before it; the source still holds that value  *)
(* afterwards; and no other location changes: the other registers, every  *)
(* other stack slot, the stack length and sp are as they were.             *)
(***************************************************************************)
\* The value a resolvable path names in a stack and a register file.
Held(s, regs, path) ==
    IF path.kind = "REG" THEN regs[path.reg] ELSE s.memory[s.sp - path.idx + 1]

C12_CopyFrame ==
    (Executed("CPY") /\ status = "running") =>
        LET dst == LastInst.dst
            src == LastInst.src
            v   == Held(before.stack, before.registers, src)
        IN  /\ Held(stack, registers, dst) = v
            /\ Held(stack, registers, src) = v
            /\ \A r \in Reg :
                  dst # REG(r) => registers[r] = before.registers[r]
            /\ Len(stack.memory) = Len(Pre)
            /\ stack.sp = before.stack.sp
            /\ \A i \in 1..Len(Pre) :
                  dst # STK(stack.sp - i + 1) => stack.memory[i] = Pre[i]

\* A copy between two stack slots that held different values.
C12_Witness ==
    /\ Executed("CPY")
    /\ status = "running"
    /\ LastInst.dst = STK(1)
    /\ LastInst.src = STK(0)
    /\ Pre = <<1, 2>>
    /\ stack.memory = <<2, 2>>

(***************************************************************************)
(* C13.  A stack-relative path with offset o resolves exactly when the     *)
(* stack is not empty and 0 <= o <= sp, and then names the slot at index   *)
(* sp - o.  Every negative offset and every offset above sp ends the copy  *)
(* in AddressError, for the source and for the destination alike; on an    *)
(* empty stack the access fails at once on its assertion; and a failing    *)
(* copy is fatal and stores nothing.                                       *)
(***************************************************************************)
\* What the claim has resolving a path against stack s end in.
ClaimedResolve(s, path) ==
    IF path.kind = "REG" THEN "ok"
    ELSE IF Len(s.memory) = 0 THEN "AssertionFailed"
    ELSE IF 0 <= path.idx /\ path.idx <= s.sp THEN "ok"
    ELSE "AddressError"

\* The source is resolved first, the destination only after it.
ClaimedCopyStatus(s, dst, src) ==
    IF ClaimedResolve(s, src) # "ok" THEN ClaimedResolve(s, src)
    ELSE IF ClaimedResolve(s, dst) # "ok" THEN ClaimedResolve(s, dst)
    ELSE "running"

C13_AsClaimed ==
    Executed("CPY") =>
        LET dst == LastInst.dst
            src == LastInst.src
        IN  /\ status = ClaimedCopyStatus(before.stack, dst, src)
            /\ status # "running" =>
                  stack = before.stack /\ registers = before.registers
            /\ (status = "running" /\ src.kind = "STK") =>
                  Held(stack, registers, dst) = Pre[before.stack.sp - src.idx + 1]
            /\ (status = "running" /\ dst.kind = "STK" /\ src.kind = "REG") =>
                  stack.memory[before.stack.sp - dst.idx + 1]
                      = before.registers[src.reg]

(***************************************************************************)
(* C14.  The register file always has exactly the six keys A..F, all zero  *)
(* at creation, so reading or writing a register never fails: no run ends  *)
(* in RegisterError.  SET(r, v) leaves r holding v, the other five         *)
(* registers and the stack as they were, and the run going.                *)
(***************************************************************************)
C14_RegistersTotal ==
    /\ DOMAIN registers = Reg
    /\ Cardinality(Reg) = 6
    /\ fetched = <<>> => \A r \in Reg : registers[r] = 0
    /\ status # "RegisterError"
    /\ \A r \in Reg :
          /\ get_reg_value(registers, r).res = "ok"
          /\ set_reg_value(registers, r, 0).res = "ok"
    /\ Executed("SET") =>
          /\ status = "running"
          /\ registers[LastInst.reg] = LastInst.val
          /\ \A r \in Reg \ {LastInst.reg} :
                registers[r] = before.registers[r]
          /\ stack = before.stack

\* The second of two writes to different registers.
C14_Witness ==
    /\ Executed("SET")
    /\ LastInst.reg = "B"
    /\ LastInst.val = 144
    /\ before.registers["A"] = 12
    /\ registers["A"] = 12
    /\ registers["B"] = 144

(***************************************************************************)
(* C15.  The programs in question push constants, pop, and apply           *)
(* arithmetic, and end with their only HLT.  An instruction of such a      *)
(* program finds its operands unless the stack is shorter than the number  *)
(* of values it pops.                                                      *)
(***************************************************************************)
PushArithHalt(prog) ==
    /\ Len(prog) >= 1
    /\ prog[Len(prog)] = HLT
    /\ \A i \in 1..(Len(prog) - 1) :
          prog[i].op \in {"PSH", "POP"} \cup BinaryOps

LacksOperands ==
    \/ LastInst.op \in BinaryOps /\ Len(Pre) < 2
    \/ LastInst.op = "POP" /\ Len(Pre) < 1

Fatal == status \notin {"running", "halted"}

C16_SequentialPointer ==
    [][/\ program' = program
       /\ (Fetch.some /\ Fetch.inst.op # "JMP"
              /\ status' \in {"running", "halted"}) => ip' = ip + 1
       /\ ip' \notin {ip, ip + 1} => (Fetch.some /\ Fetch.inst.op = "JMP")
      ]_vars

\* A copy, not the first instruction, has executed and the run goes on.
C16_Witness ==
    /\ Executed("CPY")
    /\ status = "running"
    /\ LastAddr >= 1
    /\ ip = LastAddr + 1
    /\ ip < Len(program)

(***************************************************************************)
(* C17.  The program of main.rs runs forever.  At every point of its run   *)
(* it is running: it has not halted (the HLT at address 15 is never        *)
(* fetched) and has met no fatal condition; its stack is never deeper than *)
(* two values.  Once past address 8 it stays within addresses 8..14: the   *)
(* six instructions at 8..13 and the JMP(-6) at 14, which finds the stack  *)
(* empty and returns to 8, with the registers as they were when the loop   *)
(* was first entered.  Each DIV divides 144 by 12 and leaves 12.  The run  *)
(* takes the jump again and again, without end.                            *)
(***************************************************************************)
C17_MainRunsForever ==
    /\ [](program = MainProgram =>
            /\ status = "running"
            /\ ~Executed("HLT")
            /\ ip \in 0..14
            /\ Len(stack.memory) <= 2
            /\ (fetched # <<>> /\ LastAddr >= 8) => ip \in 8..14
            /\ Executed("JMP") =>
                  /\ LastAddr = 14
                  /\ ip = 8
                  /\ stack.memory = <<>>
                  /\ Pre = <<>>
                  /\ registers = [r \in Reg |-> CASE r = "A" -> 12
                                                  [] r = "B" -> 144
                                                  [] OTHER -> 0]
            /\ (Len(fetched) = 2 /\ fetched[2].inst.op = "JMP") =>
                  fetched[1] = [addr |-> 8, inst |-> PSH(0)]
            /\ Executed("DIV") =>
                  /\ Pre = <<144, 12>>
                  /\ stack.memory = <<12>>)
    /\ []<>(program = MainProgram => Executed("JMP"))
    /\ []<>(program = MainProgram => Executed("DIV"))

\* The loop entered again, after a jump.
C17_Witness ==
    /\ program = MainProgram
    /\ Len(fetched) = 2
    /\ fetched[2] = [addr |-> 14, inst |-> JMP(-6)]
    /\ fetched[1] = [addr |-> 8, inst |-> PSH(0)]
    /\ stack.memory = <<0>>
    /\ registers["A"] = 12
    /\ registers["B"] = 144

(***************************************************************************)
(* C18.  A program without a jump of negative offset terminates.  Each     *)
(* step that fetches an instruction of it leaves the pointer strictly      *)
(* higher, after a jump of offset zero too; so no run makes more fetches   *)
(* than the program length plus one, the last of which can only be the     *)
(* failed fetch past the end; and the run does end, halted or fatally.     *)
(***************************************************************************)
C18_NoBackwardTerminates ==
    /\ [](NoBackwardJump(program) =>
            /\ fetches <= Len(program) + 1
            /\ fetches = Len(program) + 1 => status = "IllegalInstruction")
    /\ [][(NoBackwardJump(program) /\ Fetch.some) => ip' > ip]_vars
    /\ <>(NoBackwardJump(program) => status # "running")

\* Every instruction of a program fetched in turn, a zero-offset jump among
\* them, and the failed fetch past the end.
C18_Witness ==
    /\ NoBackwardJump(program)
    /\ Len(program) = 3
    /\ \E i \in 1..Len(program) : program[i] = JMP(0)
    /\ fetches = Len(program) + 1
    /\ status = "IllegalInstruction"
    /\ ip = Len(program)

(***************************************************************************)
(* C19.  The push that ends ADD, SUB, MUL and DIV never fails: no binary   *)
(* arithmetic instruction ends in StackOverflow, since the push follows    *)
(* two successful pops and finds at most STACK_SIZE - 2 values.  A binary  *)
(* arithmetic instruction that succeeds leaves the stack exactly one value *)
(* shorter than it found it.                                               *)
(***************************************************************************)
C19_ArithmeticPushFits ==
    (fetched # <<>> /\ LastInst.op \in BinaryOps) =>
        /\ status # "StackOverflow"
        /\ Len(popped) = 2 =>
              /\ Len(Pre) >= 2
              /\ Len(Pre) - Len(popped) <= STACK_SIZE - 2
        /\ status = "running" =>
              /\ Len(popped) = 2
              /\ Len(stack.memory) = Len(Pre) - 1
              /\ stack.sp = before.stack.sp - 1

\* An addition on a full stack.
C19_Witness ==
    /\ Executed("ADD")
    /\ Len(Pre) = STACK_SIZE
    /\ status = "running"
    /\ Len(stack.memory) = STACK_SIZE - 1

(***************************************************************************)
(* C20.  A backward jump at address j whose target j + k lies before the   *)
(* start of the program never continues at an address of the program.      *)
(* Either the subtraction from the unsigned pointer panics, or it wraps    *)
(* and leaves a pointer outside the program, stack and registers untouched;*)
(* then the only step left is the failed fetch: the instruction executed   *)
(* after such a jump is none, and the run has ended in IllegalInstruction  *)
(* with the pointer still outside the program.                             *)
(***************************************************************************)
\* The fetched entry e is a backward jump aimed before address 0.
JumpsBeforeStart(e) ==
    e.inst.op = "JMP" /\ e.inst.step < 0 /\ e.addr + e.inst.step < 0

C20_JumpBeforeStartEndsRun ==
    /\ (fetched # <<>> /\ JumpsBeforeStart(fetched[1])) =>
          /\ \/ status = "ArithmeticOverflow"
             \/ status = "running" /\ ~PointerInProgram(ip) /\ ~Fetch.some
          /\ (status = "ArithmeticOverflow") <=> overflow_checks
          /\ stack = before.stack
          /\ registers = before.registers
    /\ (Len(fetched) = 2 /\ JumpsBeforeStart(fetched[2])) =>
          /\ LastInst.op = "None"
          /\ status = "IllegalInstruction"
          /\ ~PointerInProgram(ip)
          /\ ~overflow_checks

\* The pointer wrapped by such a jump, and the fetch that failed on it.
C20_Witness ==
    /\ Len(fetched) = 2
    /\ JumpsBeforeStart(fetched[2])
    /\ fetched[2].addr >= 1
    /\ Executed("None")
    /\ status = "IllegalInstruction"
    /\ ~overflow_checks

====
